---- MODULE Spec2Model ----
(***************************************************************************)
(* The receiver page of BlockShip (client/app/receiver/page.tsx): the      *)
(* React component ReceiverPage, its state hooks, its two mount effects,   *)
(* its click handlers and the asynchronous continuations of those          *)
(* handlers.  One action per event the browser can deliver to the          *)
(* component: a click on a rendered and enabled control, an edit of the    *)
(* search box, an identity session event, the settling of an awaited       *)
(* promise, and the teardown of the component.                             *)
(***************************************************************************)
EXTENDS Naturals, Sequences, FiniteSets

\* ------------------------------------------------------------------ bounds
MaxIdLen == 1       \* longest text typed into the search box
MaxInFlight == 2    \* most promises of one kind awaited at once
MaxSubmits == 2     \* most clicks on Search that carry a non-empty identifier

\* ------------------------------------------------------------------ values
Chars == {" ", "a"}

\* the texts the search box can hold, as sequences of characters
Ids == UNION {[1..n -> Chars] : n \in 0..MaxIdLen}

\* JavaScript null (useState<Shipment | null>(null), a JSON null body)
Null == [type |-> "null"]

\* a field that the JSON body does not carry
Undefined == "undefined"

NoAddress == "null"

DocUrl == "https://store.example/doc1"

TokenId == "7"

\* interface Shipment, restricted to the fields the component reads; the body is
\* returned unvalidated, so a field may be missing or empty
\* the records the store is tried with: each value of each field occurs
Shipment ==
  {[shipmentId |-> <<"a">>, documentUrl |-> DocUrl, nftTokenId |-> Undefined],
   [shipmentId |-> <<"a">>, documentUrl |-> DocUrl, nftTokenId |-> TokenId],
   [shipmentId |-> <<" ">>, documentUrl |-> Undefined, nftTokenId |-> ""],
   [shipmentId |-> <<"a">>, documentUrl |-> "", nftTokenId |-> TokenId]}

\* the remote store holds one resource; every other path reads as null
StoreKeys == {<<"a">>}

Bodies == {Null} \cup Shipment

Addresses == {"0xA1", "0xB2"}

\* what eth_accounts resolves to
AccountLists == {<<>>} \cup {<<a>> : a \in Addresses}

\* values a rejected promise carries: an Error with a message, or a non-Error
Errors == {[isError |-> TRUE, message |-> "User rejected the request"], [isError |-> FALSE, message |-> ""]}

\* JavaScript truthiness of an optional string field
Truthy(v) == v # Undefined /\ v # ""

contractAddress == "0x7F02cCB62e466962c6e929691B159E0369eb5a6a"

firebaseUrl(id) == <<"https://blockship-16599-default-rtdb.firebaseio.com/shipments/", id, ".json">>

explorerUrl(tokenId) == <<"https://etherscan.io/token/", contractAddress, "?a=", tokenId>>

Toast(title, description, variant) == [title |-> title, description |-> description, variant |-> variant]

VARIABLES
  shipmentId,       \* useState(""): the text of the search box
  shipment,         \* useState<Shipment | null>(null): the displayed record
  isLoading,        \* useState(false): the one loading flag
  isLoggedIn,       \* useState(false)
  isWeb3Connected,  \* useState(false)
  walletAddress,    \* useState<string | null>(null)
  claimLoading,     \* useState(false)
  claimed,          \* useState(false)
  mounted,          \* the component is on the page
  subscribed,       \* the onAuthStateChanged subscription is held
  ethereum,         \* window.ethereum is injected
  store,            \* the remote shipment store, by identifier
  walletCheck,      \* the mount-time checkWalletConnection: "pending" or "done"
  logins,           \* signInWithGoogle() calls awaited
  connects,         \* handleConnectWallet calls in flight, each at its await
  searches,         \* fetchShipment calls in flight: identifier and the await they are at
  controller,       \* the Disclosure Controller state the last search step produced
  numSubmits,       \* clicks on Search made with a non-empty identifier
  numReads,         \* GET requests issued to the store
  last              \* what the most recent step did: toasts, windows, requests, prompts

vars == <<shipmentId, shipment, isLoading, isLoggedIn, isWeb3Connected, walletAddress,
          claimLoading, claimed, mounted, subscribed, ethereum, store, walletCheck,
          logins, connects, searches, controller, numSubmits, numReads, last>>

session == <<isLoggedIn, isWeb3Connected, walletAddress>>

claim == <<claimLoading, claimed>>

env == <<ethereum, store>>

counters == <<numSubmits, numReads>>

\* a step that shows nothing, opens nothing, requests nothing
Quiet(op) == [op |-> op, id |-> <<>>, toasts |-> <<>>, opened |-> <<>>, requests |-> <<>>,
              prompts |-> 0, response |-> "none", resolved |-> [threw |-> FALSE, value |-> Null]]

RemoveAt(s, i) == SubSeq(s, 1, i - 1) \o SubSeq(s, i + 1, Len(s))

\* ------------------------------------------------------------------ render
\* {!isLoggedIn ? <Button onClick={handleGoogleLogin}> ...}
LoginButtonRendered == ~isLoggedIn

\* {!isWeb3Connected ? <Button onClick={handleConnectWallet} disabled={isLoading}> ...}
ConnectButtonRendered == ~isWeb3Connected

ConnectButtonEnabled == ConnectButtonRendered /\ ~isLoading

\* a Search button that is never disabled
SearchButtonNeverDisabled == TRUE

\* <Button onClick={fetchShipment} disabled={isLoading}>
SearchButtonEnabled == ~isLoading

\* {shipment && ( ... <Button onClick={viewDocument}> ... )}
DetailsRendered == shipment # Null

\* a render that offers the token action for every displayed record
NftButtonRenderedForAnyRecord == DetailsRendered

\* {shipment.nftTokenId && ( <Button onClick={viewNFT}> ... )}
NftButtonRendered == DetailsRendered /\ Truthy(shipment.nftTokenId)


\* ------------------------------------------------------------------ handlers
StoreLookup(st, id) == IF id \in DOMAIN st THEN st[id] ELSE Null

\* checkWalletConnection without the accounts.length test
checkWalletConnectionNoLengthTest(accounts, address, connected) ==
  [walletAddress |-> IF Len(accounts) > 0 THEN accounts[1] ELSE address,
   isWeb3Connected |-> TRUE]

\* checkWalletConnection after eth_accounts resolved
checkWalletConnection(accounts, address, connected) ==
  IF Len(accounts) > 0
    THEN [walletAddress |-> accounts[1], isWeb3Connected |-> TRUE]
    ELSE [walletAddress |-> address, isWeb3Connected |-> connected]

\* handleGoogleLogin after signInWithGoogle() resolved
handleGoogleLoginResolved ==
  <<Toast("Login successful", <<"You have been successfully logged in with Google">>, "default")>>

\* handleGoogleLogin after signInWithGoogle() rejected
handleGoogleLoginRejected(error) ==
  <<Toast("Login failed",
          <<IF error.isError THEN error.message ELSE "Unknown error occurred">>,
          "destructive")>>

\* handleConnectWallet without its early return
handleConnectWalletNoGuard(connected, loading) ==
  [started |-> TRUE, isLoading |-> TRUE, prompts |-> 1, toasts |-> <<>>]

\* handleConnectWallet that never sets the loading flag
handleConnectWalletNoLoading(connected, loading) ==
  IF connected
    THEN [started |-> FALSE, isLoading |-> loading, prompts |-> 0, toasts |-> <<>>]
    ELSE [started |-> TRUE, isLoading |-> loading, prompts |-> 1, toasts |-> <<>>]

\* handleConnectWallet up to its first await
handleConnectWallet(connected, loading) ==
  IF connected
    THEN [started |-> FALSE, isLoading |-> loading, prompts |-> 0, toasts |-> <<>>]
    ELSE [started |-> TRUE, isLoading |-> TRUE, prompts |-> 1, toasts |-> <<>>]

\* lib/web3 getWalletAddress: the first account the provider lists, if any
getWalletAddress(accounts) == IF Len(accounts) > 0 THEN accounts[1] ELSE NoAddress

\* handleConnectWallet after getWalletAddress() resolved
handleConnectWalletResolved(address) ==
  [walletAddress |-> address, isWeb3Connected |-> TRUE,
   toasts |-> <<Toast("Wallet connected", <<"Your wallet has been successfully connected">>, "default")>>]

\* a catch block that notifies twice
handleConnectWalletRejectedTwice(error) ==
  <<Toast("Wallet connection failed", <<"Please make sure MetaMask is installed and unlocked">>, "destructive"),
    Toast("Wallet connection failed", <<error.message>>, "destructive")>>

\* handleConnectWallet's catch block
handleConnectWalletRejected(error) ==
  <<Toast("Wallet connection failed",
          <<IF error.isError THEN error.message
                             ELSE "Please make sure MetaMask is installed and unlocked">>,
          "destructive")>>

\* the request fetchShipmentById issues before its await
fetchRequests(id) ==
  IF id = <<>> THEN <<>> ELSE <<[method |-> "GET", url |-> firebaseUrl(id)]>>

\* fetchShipmentById that stamps the requested identifier on the record it returns
fetchShipmentByIdStamped(id, transport, body) ==
  IF id = <<>> \/ transport # "ok" \/ body = Null
    THEN [threw |-> FALSE, value |-> Null]
    ELSE [threw |-> FALSE, value |-> [body EXCEPT !.shipmentId = id]]

\* what fetchShipmentById returns to its caller, given how the fetch went
fetchShipmentById(id, transport, body) ==
  IF id = <<>> THEN [threw |-> FALSE, value |-> Null]
  ELSE IF transport = "fault" THEN [threw |-> FALSE, value |-> Null]
  ELSE IF transport = "notOk" THEN [threw |-> FALSE, value |-> Null]
  ELSE IF transport = "badBody" THEN [threw |-> FALSE, value |-> Null]
  ELSE IF body # Null THEN [threw |-> FALSE, value |-> body]
  ELSE [threw |-> FALSE, value |-> Null]

\* fetchShipment up to its await
fetchShipment(id) ==
  IF id = <<>>
    THEN [started |-> FALSE, setsLoading |-> FALSE, requests |-> <<>>,
          toasts |-> <<Toast("Error", <<"Please enter a shipment ID">>, "destructive")>>]
    ELSE [started |-> TRUE, setsLoading |-> TRUE, requests |-> fetchRequests(id),
          toasts |-> <<>>]

\* fetchShipment that reports every failure with the generic text
fetchShipmentSettledGenericText(result, current) ==
  IF ~result.threw /\ result.value # Null
    THEN [shipment |-> result.value, requests |-> <<>>,
          toasts |-> <<Toast("Shipment found", <<"Shipment ID: ", result.value.shipmentId>>, "default")>>]
    ELSE [shipment |-> current, requests |-> <<>>,
          toasts |-> <<Toast("Error", <<"Failed to fetch shipment data. Please try again.">>, "destructive")>>]

\* fetchShipment that reads once more after a failure
fetchShipmentSettledWithRetry(result, current) ==
  IF ~result.threw /\ result.value # Null
    THEN [shipment |-> result.value, requests |-> <<>>,
          toasts |-> <<Toast("Shipment found", <<"Shipment ID: ", result.value.shipmentId>>, "default")>>]
    ELSE [shipment |-> current, requests |-> <<[method |-> "GET", url |-> <<"retry">>]>>,
          toasts |-> <<Toast("Error", <<"No shipment found with this ID">>, "destructive")>>]

\* fetchShipment that clears the displayed record when nothing was found
fetchShipmentSettledClearsRecord(result, current) ==
  IF ~result.threw /\ result.value # Null
    THEN [shipment |-> result.value, requests |-> <<>>,
          toasts |-> <<Toast("Shipment found", <<"Shipment ID: ", result.value.shipmentId>>, "default")>>]
    ELSE [shipment |-> Null, requests |-> <<>>,
          toasts |-> <<Toast("Error", <<"No shipment found with this ID">>, "destructive")>>]

\* fetchShipment after fetchShipmentById settled
fetchShipmentSettled(result, current) ==
  IF result.threw
    THEN [shipment |-> current, requests |-> <<>>,
          toasts |-> <<Toast("Error", <<"Failed to fetch shipment data. Please try again.">>, "destructive")>>]
  ELSE IF result.value # Null
    THEN [shipment |-> result.value, requests |-> <<>>,
          toasts |-> <<Toast("Shipment found", <<"Shipment ID: ", result.value.shipmentId>>, "default")>>]
  ELSE [shipment |-> current, requests |-> <<>>,
        toasts |-> <<Toast("Error", <<"No shipment found with this ID">>, "destructive")>>]

\* the Disclosure Controller state a settled search leaves
ControllerAfter(result) ==
  IF ~result.threw /\ result.value # Null THEN "Found" ELSE "NotFoundOrError"

\* viewDocument that checks the record but not its documentUrl
viewDocumentNoUrlCheck(s) ==
  IF s = Null
    THEN [opened |-> <<>>,
          toasts |-> <<Toast("Error", <<"Document URL not available">>, "destructive")>>]
    ELSE [opened |-> <<[url |-> <<s.documentUrl>>, target |-> "_blank"]>>, toasts |-> <<>>]

viewDocument(s) ==
  IF s = Null \/ ~Truthy(s.documentUrl)
    THEN [opened |-> <<>>,
          toasts |-> <<Toast("Error", <<"Document URL not available">>, "destructive")>>]
    ELSE [opened |-> <<[url |-> <<s.documentUrl>>, target |-> "_blank"]>>, toasts |-> <<>>]

viewNFT(s) ==
  IF s = Null \/ ~Truthy(s.nftTokenId)
    THEN [opened |-> <<>>,
          toasts |-> <<Toast("Error", <<"NFT information not available">>, "destructive")>>]
    ELSE [opened |-> <<[url |-> explorerUrl(s.nftTokenId), target |-> "_blank"]>>, toasts |-> <<>>]

\* ------------------------------------------------------------------ state machine
Init ==
  /\ shipmentId = <<>>
  /\ shipment = Null
  /\ isLoading = FALSE
  /\ isLoggedIn = FALSE
  /\ isWeb3Connected = FALSE
  /\ walletAddress = NoAddress
  /\ claimLoading = FALSE
  /\ claimed = FALSE
  /\ mounted = TRUE
  /\ subscribed = TRUE
  /\ ethereum \in BOOLEAN
  /\ store \in [StoreKeys -> Bodies]
  /\ walletCheck = IF ethereum THEN "pending" ELSE "done"
  /\ logins = 0
  /\ connects = <<>>
  /\ searches = <<>>
  /\ controller = "Idle"
  /\ numSubmits = 0
  /\ numReads = 0
  /\ last = Quiet("mount")

\* auth.onAuthStateChanged((user) => setIsLoggedIn(!!user))
AuthStateChanged(user) ==
  /\ subscribed
  /\ isLoggedIn' = user
  /\ last' = Quiet("onAuthStateChanged")
  /\ UNCHANGED <<shipmentId, shipment, isLoading, isWeb3Connected, walletAddress, claim,
                 mounted, subscribed, env, walletCheck, logins, connects, searches,
                 controller, counters>>

\* the mount-time eth_accounts request resolves
WalletCheckResolves(accounts) ==
  /\ walletCheck = "pending"
  /\ walletCheck' = "done"
  /\ LET eff == checkWalletConnection(accounts, walletAddress, isWeb3Connected) IN
       /\ walletAddress' = eff.walletAddress
       /\ isWeb3Connected' = eff.isWeb3Connected
  /\ last' = [Quiet("checkWalletConnection") EXCEPT
                !.response = IF Len(accounts) > 0 THEN "accounts" ELSE "empty"]
  /\ UNCHANGED <<shipmentId, shipment, isLoading, isLoggedIn, claim, mounted, subscribed,
                 env, logins, connects, searches, controller, counters>>

\* the mount-time eth_accounts request rejects: console.error only
WalletCheckRejects ==
  /\ walletCheck = "pending"
  /\ walletCheck' = "done"
  /\ last' = [Quiet("checkWalletConnection") EXCEPT !.response = "rejected"]
  /\ UNCHANGED <<shipmentId, shipment, isLoading, session, claim, mounted, subscribed,
                 env, logins, connects, searches, controller, counters>>

\* a click on "Sign in with Google"
ClickGoogleLogin ==
  /\ mounted
  /\ LoginButtonRendered
  /\ logins < MaxInFlight
  /\ logins' = logins + 1
  /\ last' = Quiet("handleGoogleLogin")
  /\ UNCHANGED <<shipmentId, shipment, isLoading, session, claim, mounted, subscribed,
                 env, walletCheck, connects, searches, controller, counters>>

GoogleLoginResolves ==
  /\ logins > 0
  /\ logins' = logins - 1
  /\ last' = [Quiet("handleGoogleLogin.settled") EXCEPT !.toasts = handleGoogleLoginResolved]
  /\ UNCHANGED <<shipmentId, shipment, isLoading, session, claim, mounted, subscribed,
                 env, walletCheck, connects, searches, controller, counters>>

GoogleLoginRejects(error) ==
  /\ logins > 0
  /\ logins' = logins - 1
  /\ last' = [Quiet("handleGoogleLogin.settled") EXCEPT !.toasts = handleGoogleLoginRejected(error)]
  /\ UNCHANGED <<shipmentId, shipment, isLoading, session, claim, mounted, subscribed,
                 env, walletCheck, connects, searches, controller, counters>>

\* a click on "Connect Wallet"
ClickConnectWallet ==
  /\ mounted
  /\ ConnectButtonEnabled
  /\ Len(connects) < MaxInFlight
  /\ LET eff == handleConnectWallet(isWeb3Connected, isLoading) IN
       /\ isLoading' = eff.isLoading
       /\ connects' = IF eff.started THEN Append(connects, "connectWallet") ELSE connects
       /\ last' = [Quiet("handleConnectWallet") EXCEPT
                     !.prompts = eff.prompts, !.toasts = eff.toasts]
  /\ UNCHANGED <<shipmentId, shipment, session, claim, mounted, subscribed, env,
                 walletCheck, logins, searches, controller, counters>>

\* await connectWallet() resolves: getWalletAddress() is called next
ConnectWalletResolves(i) ==
  /\ i \in 1..Len(connects)
  /\ connects[i] = "connectWallet"
  /\ connects' = [connects EXCEPT ![i] = "getWalletAddress"]
  /\ last' = Quiet("handleConnectWallet.connected")
  /\ UNCHANGED <<shipmentId, shipment, isLoading, session, claim, mounted, subscribed,
                 env, walletCheck, logins, searches, controller, counters>>

\* await getWalletAddress() resolves
GetWalletAddressResolves(i, accounts) ==
  /\ i \in 1..Len(connects)
  /\ connects[i] = "getWalletAddress"
  /\ connects' = RemoveAt(connects, i)
  /\ LET eff == handleConnectWalletResolved(getWalletAddress(accounts)) IN
       /\ walletAddress' = eff.walletAddress
       /\ isWeb3Connected' = eff.isWeb3Connected
       /\ last' = [Quiet("handleConnectWallet.settled") EXCEPT !.toasts = eff.toasts]
  /\ isLoading' = FALSE
  /\ UNCHANGED <<shipmentId, shipment, isLoggedIn, claim, mounted, subscribed, env,
                 walletCheck, logins, searches, controller, counters>>

\* a rejected connect whose loading flag is cleared on the success path only
ConnectWalletRejectsNoFinally(i, error) ==
  /\ i \in 1..Len(connects)
  /\ connects' = RemoveAt(connects, i)
  /\ last' = [Quiet("handleConnectWallet.settled") EXCEPT
                !.toasts = handleConnectWalletRejected(error), !.response = connects[i]]
  /\ UNCHANGED <<shipmentId, shipment, isLoading, session, claim, mounted, subscribed, env,
                 walletCheck, logins, searches, controller, counters>>

\* either await of handleConnectWallet rejects: catch, then finally
ConnectWalletRejects(i, error) ==
  /\ i \in 1..Len(connects)
  /\ connects' = RemoveAt(connects, i)
  /\ last' = [Quiet("handleConnectWallet.settled") EXCEPT
                !.toasts = handleConnectWalletRejected(error), !.response = connects[i]]
  /\ isLoading' = FALSE
  /\ UNCHANGED <<shipmentId, shipment, session, claim, mounted, subscribed, env,
                 walletCheck, logins, searches, controller, counters>>

\* <Input onChange={(e) => setShipmentId(e.target.value)} />
SetShipmentId(v) ==
  /\ mounted
  /\ v # shipmentId
  /\ shipmentId' = v
  /\ last' = Quiet("setShipmentId")
  /\ UNCHANGED <<shipment, isLoading, session, claim, mounted, subscribed, env,
                 walletCheck, logins, connects, searches, controller, counters>>

\* a click on "Search"
ClickSearch ==
  /\ mounted
  /\ SearchButtonEnabled
  /\ numSubmits < MaxSubmits
  /\ Len(searches) < MaxInFlight
  /\ LET eff == fetchShipment(shipmentId) IN
       /\ isLoading' = (eff.setsLoading \/ isLoading)
       /\ searches' = IF eff.started
                        THEN Append(searches, [id |-> shipmentId, stage |-> "fetch"])
                        ELSE searches
       /\ controller' = IF eff.started THEN "Searching" ELSE controller
       /\ numReads' = numReads + Len(eff.requests)
       /\ last' = [Quiet("fetchShipment") EXCEPT
                     !.id = shipmentId, !.toasts = eff.toasts, !.requests = eff.requests]
  /\ numSubmits' = numSubmits + (IF shipmentId # <<>> THEN 1 ELSE 0)
  /\ UNCHANGED <<shipmentId, shipment, session, claim, mounted, subscribed, env,
                 walletCheck, logins, connects>>

\* await fetch() of search i resolves with an ok response: response.json() is
\* awaited next
FetchRespondsOk(i) ==
  /\ i \in 1..Len(searches)
  /\ searches[i].stage = "fetch"
  /\ searches' = [searches EXCEPT ![i].stage = "json"]
  /\ last' = [Quiet("fetchShipmentById.response") EXCEPT !.id = searches[i].id]
  /\ UNCHANGED <<shipmentId, shipment, isLoading, session, claim, mounted, subscribed,
                 env, walletCheck, logins, connects, controller, counters>>

\* the await search i is at settles for good: fetch() rejected or answered not
\* ok, or response.json() delivered the body or rejected; fetchShipmentById
\* returns and fetchShipment continues
SearchSettles(i, transport) ==
  /\ i \in 1..Len(searches)
  /\ searches[i].stage = (IF transport \in {"fault", "notOk"} THEN "fetch" ELSE "json")
  /\ LET id == searches[i].id
         result == fetchShipmentById(id, transport, StoreLookup(store, id))
         eff == fetchShipmentSettled(result, shipment)
     IN
       /\ shipment' = eff.shipment
       /\ controller' = ControllerAfter(result)
       /\ numReads' = numReads + Len(eff.requests)
       /\ last' = [Quiet("fetchShipment.settled") EXCEPT
                     !.id = id, !.toasts = eff.toasts, !.requests = eff.requests,
                     !.response = transport, !.resolved = result]
  /\ searches' = RemoveAt(searches, i)
  /\ isLoading' = FALSE
  /\ UNCHANGED <<shipmentId, session, claim, mounted, subscribed, env, walletCheck,
                 logins, connects, numSubmits>>

\* a click on "View Document"
ClickViewDocument ==
  /\ mounted
  /\ DetailsRendered
  /\ LET eff == viewDocument(shipment) IN
       last' = [Quiet("viewDocument") EXCEPT !.toasts = eff.toasts, !.opened = eff.opened]
  /\ UNCHANGED <<shipmentId, shipment, isLoading, session, claim, mounted, subscribed,
                 env, walletCheck, logins, connects, searches, controller, counters>>

\* a "View NFT" click that also marks the shipment claimed
ClickViewNFTClaims ==
  /\ mounted
  /\ NftButtonRendered
  /\ LET eff == viewNFT(shipment) IN
       last' = [Quiet("viewNFT") EXCEPT !.toasts = eff.toasts, !.opened = eff.opened]
  /\ claimed' = TRUE
  /\ UNCHANGED <<shipmentId, shipment, isLoading, session, claimLoading, mounted, subscribed,
                 env, walletCheck, logins, connects, searches, controller, counters>>

\* a click on "View NFT"
ClickViewNFT ==
  /\ mounted
  /\ NftButtonRendered
  /\ LET eff == viewNFT(shipment) IN
       last' = [Quiet("viewNFT") EXCEPT !.toasts = eff.toasts, !.opened = eff.opened]
  /\ UNCHANGED <<shipmentId, shipment, isLoading, session, claim, mounted, subscribed,
                 env, walletCheck, logins, connects, searches, controller, counters>>

\* the component is torn down: the auth effect's cleanup runs unsubscribe()
Unmount ==
  /\ mounted
  /\ mounted' = FALSE
  /\ subscribed' = FALSE
  /\ last' = Quiet("unmount")
  /\ UNCHANGED <<shipmentId, shipment, isLoading, session, claim, env, walletCheck,
                 logins, connects, searches, controller, counters>>

\* how a search ends: fetch() rejects, the response is not ok, the body
\* arrives, or response.json() rejects
Transports == {"fault", "notOk", "ok", "badBody"}

Next ==
  \/ \E user \in BOOLEAN : AuthStateChanged(user)
  \/ \E accounts \in AccountLists : WalletCheckResolves(accounts)
  \/ WalletCheckRejects
  \/ ClickGoogleLogin
  \/ GoogleLoginResolves
  \/ \E error \in Errors : GoogleLoginRejects(error)
  \/ ClickConnectWallet
  \/ \E i \in 1..MaxInFlight : ConnectWalletResolves(i)
  \/ \E i \in 1..MaxInFlight, accounts \in AccountLists : GetWalletAddressResolves(i, accounts)
  \/ \E i \in 1..MaxInFlight, error \in Errors : ConnectWalletRejects(i, error)
  \/ \E v \in Ids : SetShipmentId(v)
  \/ ClickSearch
  \/ \E i \in 1..MaxInFlight : FetchRespondsOk(i)
  \/ \E i \in 1..MaxInFlight, transport \in Transports : SearchSettles(i, transport)
  \/ ClickViewDocument
  \/ ClickViewNFT
  \/ Unmount

Spec == Init /\ [][Next]_vars

TypeOK ==
  /\ shipmentId \in Ids
  /\ shipment \in Bodies
  /\ isLoading \in BOOLEAN
  /\ walletAddress \in Addresses \cup {NoAddress}
  /\ logins \in 0..MaxInFlight
  /\ Len(connects) <= MaxInFlight
  /\ Len(searches) <= MaxInFlight
  /\ numSubmits \in 0..MaxSubmits

\* ------------------------------------------------------------------ claims
\* a text that is empty or holds whitespace only
IsBlank(id) == \A i \in 1..Len(id) : id[i] = " "

InvalidInputToast == Toast("Error", <<"Please enter a shipment ID">>, "destructive")

\* C1: a search submitted with an empty or whitespace-only identifier issues no
\* request to the store, shows the "Please enter a shipment ID" failure and
\* leaves the loading flag clear.
C1_BlankIdentifierRejectedLocally ==
  (last.op = "fetchShipment" /\ IsBlank(last.id)) =>
    /\ last.requests = <<>>
    /\ last.toasts = <<InvalidInputToast>>
    /\ ~isLoading
    /\ searches = <<>>

\* C2: in every state where the wallet is connected, handleConnectWallet
\* returns at once: no authorization prompt, no notification, nothing awaited
\* (so walletAddress and isWeb3Connected are never written), loading flag as it was.
C2_ConnectWhileConnectedIsNoOp ==
  isWeb3Connected =>
    LET eff == handleConnectWallet(isWeb3Connected, isLoading) IN
      /\ eff.prompts = 0
      /\ eff.toasts = <<>>
      /\ ~eff.started
      /\ eff.isLoading = isLoading

\* a connected wallet, reached by a connect that settled
C2_Witness ==
  /\ isWeb3Connected
  /\ walletAddress \in Addresses
  /\ last.op = "handleConnectWallet.settled"

\* C3: the wallet is marked connected exactly when an address is held.
C3_ConnectedIffAddressPresent == isWeb3Connected <=> (walletAddress # NoAddress)

NftPresent == shipment # Null /\ shipment.nftTokenId # Undefined /\ shipment.nftTokenId # ""

\* C4: the token action is rendered exactly when a record is displayed whose
\* nftTokenId is present and non-empty, and viewNFT opens the explorer only
\* for such a record, at the URL built from its nftTokenId.
C4_TokenActionIffNftPresent ==
  /\ NftButtonRendered <=> NftPresent
  /\ ~NftPresent => viewNFT(shipment).opened = <<>>
  /\ last.op = "viewNFT" =>
       /\ NftPresent
       /\ last.opened = <<[url |-> explorerUrl(shipment.nftTokenId), target |-> "_blank"]>>
       /\ last.toasts = <<>>

\* the explorer was opened for a displayed record that carries a token
C4_Witness == last.op = "viewNFT" /\ last.opened # <<>> /\ NftPresent

DocAbsent == shipment = Null \/ shipment.documentUrl = Undefined \/ shipment.documentUrl = ""

\* C5: the document action without a record or without a documentUrl shows
\* exactly one failure notification and opens nothing; with a documentUrl it
\* opens exactly that URL and shows no notification.
C5_DocumentActionGuarded ==
  LET eff == viewDocument(shipment) IN
    /\ DocAbsent =>
         /\ Len(eff.toasts) = 1
         /\ eff.toasts[1].variant = "destructive"
         /\ eff.opened = <<>>
    /\ ~DocAbsent =>
         /\ eff.opened = <<[url |-> <<shipment.documentUrl>>, target |-> "_blank"]>>
         /\ eff.toasts = <<>>
    /\ last.op = "viewDocument" => (last.toasts = eff.toasts /\ last.opened = eff.opened)

\* the document action was invoked on a displayed record that has no documentUrl
C5_Witness ==
  /\ last.op = "viewDocument"
  /\ shipment # Null
  /\ DocAbsent
  /\ Len(last.toasts) = 1
  /\ last.opened = <<>>

NotFoundToast == Toast("Error", <<"No shipment found with this ID">>, "destructive")

\* C6: when the search of a non-empty identifier resolves to absent, the step
\* shows exactly the failure "No shipment found with this ID", leaves the
\* controller in NotFoundOrError and does not touch the text of the search box.
C6_NotFoundKeepsSearchBox ==
  [][(last'.op = "fetchShipment.settled" /\ last'.id # <<>> /\ last'.resolved.value = Null) =>
       /\ last'.toasts = <<NotFoundToast>>
       /\ controller' = "NotFoundOrError"
       /\ shipmentId' = shipmentId]_vars

\* a store that answered with an empty body, the box still holding what was submitted
C6_Witness ==
  /\ last.op = "fetchShipment.settled"
  /\ last.response = "ok"
  /\ last.resolved.value = Null
  /\ last.id # <<>>
  /\ shipmentId = last.id
  /\ controller = "NotFoundOrError"
  /\ last.toasts = <<NotFoundToast>>

\* C7: what fetchShipmentById hands its caller after a transport failure differs
\* from what it hands over after a success response with an empty body.
C7_TransportErrorDistinctFromNotFound ==
  (last.op = "fetchShipment.settled" /\ last.response \in {"fault", "notOk"}) =>
    last.resolved # fetchShipmentById(last.id, "ok", Null)

\* C8: the store has been read exactly once per search submitted with a
\* non-empty identifier: the submission issues one GET for that identifier and
\* no settled search, failed or not, issues another.
C8_OneReadPerSubmission ==
  /\ numReads = numSubmits
  /\ (last.op = "fetchShipment" /\ last.id # <<>>) =>
       last.requests = <<[method |-> "GET", url |-> firebaseUrl(last.id)]>>
  /\ (last.op = "fetchShipment" /\ last.id = <<>>) => last.requests = <<>>
  /\ last.op = "fetchShipment.settled" => last.requests = <<>>

\* a failed search settled after more than one submission, with no read added
C8_Witness ==
  /\ numSubmits > 1
  /\ last.op = "fetchShipment.settled"
  /\ last.resolved.value = Null
  /\ numReads = numSubmits

\* C9: with no search in flight, the Search button is enabled in every state of
\* the identity and wallet gates, a wallet connect in flight included.
C9_GatesNeverBlockSearch == (mounted /\ searches = <<>>) => SearchButtonEnabled

\* C10 as stated: while a search is in flight a second submission is accepted.
C10_SecondSubmissionAccepted == (mounted /\ searches # <<>>) => SearchButtonEnabled

\* C10 as amended: while a search is in flight the Search button is disabled, so
\* at most one resolution is in flight, and a response that carries a record
\* leaves exactly that record displayed.
C10_OneSearchAtATime ==
  /\ Len(searches) <= 1
  /\ searches # <<>> => ~SearchButtonEnabled
  /\ (last.op = "fetchShipment.settled" /\ last.resolved.value # Null) =>
       shipment = last.resolved.value

\* a search in flight while the box holds another identifier that cannot be submitted
C10_Witness ==
  /\ mounted
  /\ searches # <<>>
  /\ shipmentId # <<>>
  /\ shipmentId # searches[1].id
  /\ numSubmits < MaxSubmits
  /\ ~SearchButtonEnabled

\* C11: while a handleConnectWallet call is at either of its awaits the loading
\* flag is set, whatever else has run meanwhile, and the step that ends the
\* call, by success or by failure of either step, leaves the flag clear.
C11_LoadingHeldThroughConnect ==
  /\ connects # <<>> => isLoading
  /\ last.op = "handleConnectWallet.settled" => ~isLoading

\* a connect at its second await, the flag still set after the mount-time check ran
C11_Witness ==
  /\ connects = <<"getWalletAddress">>
  /\ isLoading
  /\ last.op = "checkWalletConnection"

\* a step that ended in a failure notification
FailureShown == last.toasts # <<>> /\ last.toasts[1].variant = "destructive"

\* C12: once every awaited call of a search or a connect has settled, no
\* loading flag is left set and the mounted view offers Search again, and
\* Sign in and Connect Wallet unless already signed in or connected; in
\* particular the step that reports a failed search or connect clears the flag.
C12_InteractiveAfterFailure ==
  /\ (searches = <<>> /\ connects = <<>>) =>
       /\ ~isLoading
       /\ mounted =>
            /\ SearchButtonEnabled
            /\ ~isLoggedIn => LoginButtonRendered
            /\ ~isWeb3Connected => ConnectButtonEnabled
  /\ (FailureShown /\ last.op \in {"fetchShipment.settled", "handleConnectWallet.settled"}) =>
       ~isLoading

\* a failed wallet connect after which Search and Connect Wallet are offered again
C12_Witness ==
  /\ last.op = "handleConnectWallet.settled"
  /\ FailureShown
  /\ mounted
  /\ ~isLoading
  /\ SearchButtonEnabled
  /\ ConnectButtonEnabled

\* C13: a search that the store answers with a record displays that record as
\* stored under the requested identifier, unchanged, and the success
\* notification echoes the shipmentId of that record.
C13_RecordReturnedVerbatim ==
  (last.op = "fetchShipment.settled" /\ last.response = "ok"
     /\ StoreLookup(store, last.id) # Null) =>
    /\ shipment = StoreLookup(store, last.id)
    /\ controller = "Found"
    /\ last.toasts = <<Toast("Shipment found", <<"Shipment ID: ", shipment.shipmentId>>, "default")>>

\* a record found whose own shipmentId differs from the identifier searched for
C13_Witness ==
  /\ last.op = "fetchShipment.settled"
  /\ last.response = "ok"
  /\ shipment # Null
  /\ shipment = StoreLookup(store, last.id)
  /\ shipment.shipmentId # last.id

\* C14: the mount-time check never prompts and never notifies; without a
\* provider it is over at mount with no wallet bound; when the provider
\* lists no account or its call fails, the check writes neither walletAddress
\* nor isWeb3Connected.
C14_MountCheckResolvesAbsent ==
  /\ [](~ethereum =>
          /\ walletCheck = "done"
          /\ last.op = "mount" => (~isWeb3Connected /\ walletAddress = NoAddress))
  /\ [][last'.op = "checkWalletConnection" =>
          /\ last'.toasts = <<>>
          /\ last'.prompts = 0
          /\ last'.response \in {"empty", "rejected"} =>
               UNCHANGED <<walletAddress, isWeb3Connected>>]_vars

\* the provider's call failed at mount and no wallet is bound
C14_Witness ==
  /\ last.op = "checkWalletConnection"
  /\ last.response = "rejected"
  /\ ~isWeb3Connected
  /\ walletAddress = NoAddress

\* C15: the claim-in-progress flag and the claimed flag are false in every state.
C15_ClaimStatesUnreachable == ~claimLoading /\ ~claimed

\* signed in, wallet connected, a record found and its token viewed: still no claim
C15_Witness ==
  /\ isLoggedIn
  /\ isWeb3Connected
  /\ last.op = "viewNFT"
  /\ ~claimLoading
  /\ ~claimed

\* C16: after the most recently completed search returned absent or failed,
\* the record summary and its actions are not rendered.
C16_NothingRenderedAfterNotFound == controller = "NotFoundOrError" => ~DetailsRendered

\* a handleConnectWallet call that ended in its catch block
ConnectFailed == last.op = "handleConnectWallet.settled" /\ FailureShown

\* C17: the step in which either await of a connect fails leaves walletAddress
\* and isWeb3Connected as they were, shows exactly one failure notification
\* and no prompt, and when the authorization request is what failed, the call
\* ends there without the address retrieval being awaited.
C17_FailedConnectWritesNothing ==
  [][(last'.op = "handleConnectWallet.settled" /\ last'.response # "none") =>
       /\ UNCHANGED <<walletAddress, isWeb3Connected>>
       /\ Len(last'.toasts) = 1
       /\ last'.toasts[1].variant = "destructive"
       /\ last'.toasts[1].title = "Wallet connection failed"
       /\ last'.prompts = 0
       /\ last'.response = "connectWallet" =>
            /\ connects = <<"connectWallet">>
            /\ connects' = <<>>]_vars

\* the authorization request was refused: one failure shown, no wallet bound
C17_Witness ==
  /\ ConnectFailed
  /\ last.response = "connectWallet"
  /\ Len(last.toasts) = 1
  /\ connects = <<>>
  /\ ~isWeb3Connected
  /\ walletAddress = NoAddress

\* C18: once the component is torn down no step writes the session or the
\* displayed record, and the auth subscription is released.
C18_NoUpdateAfterTeardown ==
  [][~mounted => (UNCHANGED <<shipment, isLoggedIn, isWeb3Connected, walletAddress>> /\ ~subscribed)]_vars

\* C19: the displayed record changes only in the step that settles a search
\* with a record, and then to that record; the store is never written: every
\* request is a GET and the store stays as it was.
C19_RecordOwnedBySearch ==
  [][/\ shipment' # shipment =>
          /\ last'.op = "fetchShipment.settled"
          /\ last'.resolved.value # Null
          /\ shipment' = last'.resolved.value
     /\ store' = store
     /\ \A k \in 1..Len(last'.requests) : last'.requests[k].method = "GET"]_vars

\* a record on display while a session event, not a search, was the last step
C19_Witness ==
  /\ shipment # Null
  /\ last.op = "onAuthStateChanged"
  /\ isLoggedIn
  /\ controller = "NotFoundOrError"

\* C20: once the wallet is connected it stays connected and its address
\* never changes.
C20_WalletBindingStable ==
  [][isWeb3Connected => (isWeb3Connected' /\ walletAddress' = walletAddress)]_vars
====
